---- MODULE Spec2Model ----
(***************************************************************************)
(* vh-board: a kanban board whose Svelte page keeps an in-memory view      *)
(* model (tickets grouped by column, votes list, editing state) over two   *)
(* remote collections (tickets, votes) and a change feed on the votes.     *)
(*                                                                         *)
(* Every remote call of the page is an await: the handler runs up to the   *)
(* call, the request travels, the backend serves it, the response travels  *)
(* back and the rest of the handler (its continuation) runs.  A call in    *)
(* flight is a record in the client's `calls`; Serve is the backend's      *)
(* step on it and Deliver resumes the awaiting handler.                    *)
(***************************************************************************)
EXTENDS Integers, Sequences, FiniteSets, TLC

VARIABLES
    dbTickets,   \* the ticket collection: rows in insertion order
    dbVotes,     \* the vote collection: rows in insertion order
    nextId,      \* how many ticket ids the backend has handed out
    feed,        \* feed[c]: change events of the vote feed not yet delivered to c
    localStorage,\* localStorage[c]: the 'voter_id' entry of c's browser profile
    cl,          \* cl[c]: the page instance of client c (the <script> variables)
    acts,        \* how many clicks, keys and focus changes the users have made
    last         \* the step taken last: which handler ran, on what, what it issued

vars == <<dbTickets, dbVotes, nextId, feed, localStorage, cl, acts, last>>

----------------------------------------------------------------------------
(* Bounds of the model. *)

MaxActions == 3    \* clicks, keys and focus changes of all users together
MaxToggles == 2    \* clicks on vote buttons
MaxRows == 3       \* rows of the ticket collection a fetch is tried on
MaxVotes == 3      \* rows of the vote collection a page is mounted on
MaxStoreCalls == 2 \* calls of the stores' functions that reach the backend
MaxStoreEdits == 3 \* calls of the stores, those of startEdit, saveEdit, cancelEdit included
MaxSubscriptions == 4   \* calls of the vote store, those of setupVoteSubscription and its cleanups included

----------------------------------------------------------------------------
(* Values. *)

Null == "null"                 \* JavaScript null / undefined
Clients == {"c1", "c2"}

columns == <<"Good", "Bad", "Actions", "Ideas">>
ColumnTitles == {columns[i] : i \in DOMAIN columns}

NewTitle == "New Ticket"
NewContent == "Double-click to edit title and details"

\* What the modelled users click and type.
AddColumns == {"Good", "Ideas"}
TypedTitles == {NewTitle, "Retro"}
TypedContents == {NewContent, ""}
KeyPresses == {[key |-> "Enter", shiftKey |-> FALSE], [key |-> "Enter", shiftKey |-> TRUE],
               [key |-> "Escape", shiftKey |-> FALSE]}

FailureMessage == "remote failure"   \* the message of a failed remote call

\* supabaseClient.ts without URL or key: supabase is { from: () => ({ select: () =>
\* ({ data: null, error: new Error('Supabase not initialized') }) }) }.  A query
\* that ends at select() answers with that error; one that goes on (.order) or
\* takes another way (.insert, .update, .delete) calls what is not a function.
NotInitialized == "Supabase not initialized"
NotAFunction == "is not a function"
MockFailure(op) == IF op = "fetchVotes" THEN NotInitialized ELSE NotAFunction

\* a || b on strings: the empty string and null are falsy
OrElse(a, b) == IF a = Null \/ a = "" THEN b ELSE a

TicketId(n) == "t" \o ToString(n)
RandomUUID(c) == "voter-" \o c       \* crypto.randomUUID(): unique per profile

----------------------------------------------------------------------------
(* Sequences. *)

Range(s) == {s[i] : i \in DOMAIN s}

Remove(s, i) == SubSeq(s, 1, i - 1) \o SubSeq(s, i + 1, Len(s))

Perms(n) == {f \in [1..n -> 1..n] : \A i, j \in 1..n : i # j => f[i] # f[j]}

----------------------------------------------------------------------------
(* The backend: what a query of the client library does to the collections. *)

\* .order('order', { ascending: true }): the rows, non-decreasing in `order`;
\* the backend fixes no order among rows of equal `order`.
OrderedSelect(rows) ==
    LET n == Len(rows)
        sorted == {f \in Perms(n) :
                      \A i \in 1..(n - 1) : rows[f[i]].order <= rows[f[i + 1]].order}
    IN {[i \in 1..n |-> rows[f[i]]] : f \in sorted}

\* .insert([row]).select(): the row as stored, with the generated id
InsertTicket(arg, n) ==
    [id |-> TicketId(n + 1), title |-> arg.title, content |-> arg.content,
     column |-> arg.column, order |-> arg.order]

\* an update without its .eq('id', id) filter: it writes every row
UpdateTicketsEveryRow(rows, arg) ==
    [i \in DOMAIN rows |-> [rows[i] EXCEPT !.title = arg.title, !.content = arg.content]]

\* .update({title, content}).eq('id', id)
UpdateTickets(rows, arg) ==
    LET upd(t) == IF t.id = arg.id
                  THEN [t EXCEPT !.title = arg.title, !.content = arg.content]
                  ELSE t
    IN [i \in DOMAIN rows |-> upd(rows[i])]

\* .delete().eq('id', id)
DeleteTickets(rows, arg) == SelectSeq(rows, LAMBDA t : t.id # arg.id)

VoteMatches(v, arg) == v.ticket_id = arg.ticket_id /\ v.voter_id = arg.voter_id

\* from('votes').insert([{ ticket_id, voter_id }]): an unconditional insert
addVote(rows, arg) ==
    Append(rows, [ticket_id |-> arg.ticket_id, voter_id |-> arg.voter_id])

\* a delete that matches on the ticket alone
removeVoteOfTicket(rows, arg) == SelectSeq(rows, LAMBDA v : v.ticket_id # arg.ticket_id)

\* from('votes').delete().eq('ticket_id', ..).eq('voter_id', ..): every matching row
removeVote(rows, arg) == SelectSeq(rows, LAMBDA v : ~VoteMatches(v, arg))

\* The outcome of serving call m on the collections when the call does not fail:
\* the collections afterwards, the rows sent back, and the vote rows changed.
Served(m, data) ==
    LET same == [tickets |-> dbTickets, votes |-> dbVotes, nextId |-> nextId,
                 data |-> <<>>, changed |-> 0]
    IN CASE m.op = "fetchTickets" -> [same EXCEPT !.data = data]
         [] m.op = "fetchVotes" -> [same EXCEPT !.data = dbVotes]
         [] m.op = "insert" ->
              LET row == InsertTicket(m.arg, nextId)
              IN [same EXCEPT !.tickets = Append(dbTickets, row),
                              !.nextId = nextId + 1, !.data = <<row>>]
         [] m.op = "update" -> [same EXCEPT !.tickets = UpdateTickets(dbTickets, m.arg)]
         [] m.op = "delete" -> [same EXCEPT !.tickets = DeleteTickets(dbTickets, m.arg)]
         [] m.op = "addVote" ->
              [same EXCEPT !.votes = addVote(dbVotes, m.arg), !.changed = 1]
         [] m.op = "removeVote" ->
              [same EXCEPT !.votes = removeVote(dbVotes, m.arg),
                           !.changed = Len(dbVotes) - Len(removeVote(dbVotes, m.arg))]

----------------------------------------------------------------------------
(* ticketsApi.ts *)

\* a grouping that puts the ticket at the front of its bucket
GroupPushFront(grouped, ticket) ==
    IF ticket.column \in DOMAIN grouped
    THEN [grouped EXCEPT ![ticket.column] = <<ticket>> \o @]
    ELSE [k \in DOMAIN grouped \cup {ticket.column} |->
             IF k = ticket.column THEN <<ticket>> ELSE grouped[k]]

\* the body of the for loop: if (!grouped[ticket.column]) grouped[ticket.column] = [];
\* grouped[ticket.column].push(ticket)
GroupPush(grouped, ticket) ==
    IF ticket.column \in DOMAIN grouped
    THEN [grouped EXCEPT ![ticket.column] = Append(@, ticket)]
    ELSE [k \in DOMAIN grouped \cup {ticket.column} |->
             IF k = ticket.column THEN <<ticket>> ELSE grouped[k]]

RECURSIVE GroupLoop(_, _)
GroupLoop(data, grouped) ==
    IF data = <<>> THEN grouped
    ELSE GroupLoop(Tail(data), GroupPush(grouped, Head(data)))

\* fetchTickets, after the query has answered without error: group by column
fetchTickets(data) == GroupLoop(data, <<>>)

----------------------------------------------------------------------------
(* The page: its state and its functions.  A function that awaits is split   *)
(* at the await: the part before it issues the call, the part after it is    *)
(* the operator named <function>_<what has settled>.                         *)

InitPage ==
    [ticketsByColumn |-> <<>>, loading |-> TRUE, error |-> Null, votes |-> <<>>,
     editingTicketId |-> Null, editingTitle |-> "", editingContent |-> "",
     votesUnsubscribe |-> Null, mounted |-> FALSE, uncaught |-> FALSE,
     destroyed |-> FALSE, disposed |-> 0, configured |-> TRUE, calls |-> <<>>]

Call(op, ctx, arg) ==
    [op |-> op, ctx |-> ctx, arg |-> arg, stage |-> "sent", ok |-> TRUE,
     message |-> "", data |-> <<>>]

Issue(s, call) == [s EXCEPT !.calls = Append(@, call)]

\* ticketsByColumn[column] = bucket
PutBucket(byColumn, column, bucket) ==
    [k \in DOMAIN byColumn \cup {column} |-> IF k = column THEN bucket ELSE byColumn[k]]

\* ticketsByColumn[column] || []
Bucket(s, column) ==
    IF column \in DOMAIN s.ticketsByColumn THEN s.ticketsByColumn[column] ELSE <<>>

\* a getOrCreateVoterId that generates and stores an id on every call
getOrCreateVoterIdAnew(stored, uuid) == [id |-> uuid, voter_id |-> uuid, wrote |-> TRUE]

\* idGenerator: getOrCreateVoterId(), given the stored 'voter_id' entry and what
\* crypto.randomUUID() would return: the id returned, the entry afterwards, and
\* whether setItem was called
getOrCreateVoterId(stored, uuid) ==
    IF stored = Null \/ stored = ""
    THEN [id |-> uuid, voter_id |-> uuid, wrote |-> TRUE]
    ELSE [id |-> stored, voter_id |-> stored, wrote |-> FALSE]

\* getCurrentVoterId(): in the browser (typeof window !== 'undefined') the stored
\* id, or a fresh one that it stores; on the server the placeholder, and
\* localStorage is neither read nor written
getCurrentVoterId(window, stored, c) ==
    IF window
    THEN IF stored = Null \/ stored = "" THEN RandomUUID(c) ELSE stored
    ELSE "ssr-placeholder"

getVoteCount(votes, ticket) == Len(SelectSeq(votes, LAMBDA v : v.ticket_id = ticket.id))

hasVoted(s, ticket, voterId) ==
    \E i \in DOMAIN s.votes :
        s.votes[i].ticket_id = ticket.id /\ s.votes[i].voter_id = voterId

loadVotes(s, ctx) == Issue(s, Call("fetchVotes", ctx, <<>>))

\* a loadVotes that swallows the failure of its fetch
loadVotes_fetchedQuietly(s, m) ==
    IF m.ok THEN [s EXCEPT !.votes = m.data] ELSE s

loadVotes_fetched(s, m) ==
    IF m.ok THEN [s EXCEPT !.votes = m.data]
    ELSE [s EXCEPT !.error = OrElse(m.message, "Failed to load votes.")]

toggleVote(s, ticket, voterId, ctx) ==
    IF hasVoted(s, ticket, voterId)
    THEN Issue(s, Call("removeVote", ctx, [ticket_id |-> ticket.id, voter_id |-> voterId]))
    ELSE Issue(s, Call("addVote", ctx, [ticket_id |-> ticket.id, voter_id |-> voterId]))

\* a toggleVote that reloads the votes after a failed write as well
toggleVote_writtenReloads(s, m) ==
    IF m.ok THEN loadVotes(s, m.ctx)
    ELSE loadVotes([s EXCEPT !.error = OrElse(m.message, "Failed to update vote.")], m.ctx)

toggleVote_written(s, m) ==
    IF m.ok THEN loadVotes(s, m.ctx)
    ELSE [s EXCEPT !.error =
             OrElse(m.message, IF m.op = "removeVote" THEN "Failed to remove vote."
                                                      ELSE "Failed to add vote.")]

\* a refreshTickets that resets the error flag before it fetches
refreshTicketsResetsError(s, ctx) ==
    Issue([s EXCEPT !.loading = TRUE, !.error = Null], Call("fetchTickets", ctx, <<>>))

refreshTickets(s, ctx) ==
    Issue([s EXCEPT !.loading = TRUE], Call("fetchTickets", ctx, <<>>))

refreshTickets_fetched(s, m) ==
    LET s1 == IF m.ok THEN [s EXCEPT !.ticketsByColumn = fetchTickets(m.data)]
              ELSE [s EXCEPT !.error = OrElse(m.message, "Failed to load tickets.")]
    IN [s1 EXCEPT !.loading = FALSE]

\* an add that numbers the new ticket from the whole board, not from its column
handleInstantAddTicketBoardOrder(s, columnTitle) ==
    LET order == Cardinality(UNION {Range(s.ticketsByColumn[k]) : k \in DOMAIN s.ticketsByColumn}) + 1
    IN Issue(s, Call("insert", [fn |-> "handleInstantAddTicket", column |-> columnTitle],
                     [title |-> NewTitle, content |-> NewContent,
                      column |-> columnTitle, order |-> order]))

handleInstantAddTicket(s, columnTitle) ==
    LET order == Len(Bucket(s, columnTitle)) + 1
    IN Issue(s, Call("insert", [fn |-> "handleInstantAddTicket", column |-> columnTitle],
                     [title |-> NewTitle, content |-> NewContent,
                      column |-> columnTitle, order |-> order]))

\* a continuation that puts the new ticket at the head of its column
handleInstantAddTicket_insertedFirst(s, m) ==
    IF m.ok /\ Len(m.data) > 0
    THEN [s EXCEPT !.ticketsByColumn =
                       PutBucket(@, m.ctx.column, <<m.data[1]>> \o Bucket(s, m.ctx.column)),
                   !.editingTicketId = m.data[1].id,
                   !.editingTitle = m.data[1].title,
                   !.editingContent = m.data[1].content]
    ELSE [s EXCEPT !.error = OrElse(IF m.ok THEN Null ELSE m.message, "Failed to add ticket.")]

handleInstantAddTicket_inserted(s, m) ==
    IF m.ok /\ Len(m.data) > 0
    THEN [s EXCEPT !.ticketsByColumn =
                       PutBucket(@, m.ctx.column, Append(Bucket(s, m.ctx.column), m.data[1])),
                   !.editingTicketId = m.data[1].id,
                   !.editingTitle = m.data[1].title,
                   !.editingContent = m.data[1].content]
    ELSE [s EXCEPT !.error = OrElse(IF m.ok THEN Null ELSE m.message, "Failed to add ticket.")]

\* a startEdit that returns while any ticket is being edited
startEditUnlessEditing(s, ticket) ==
    IF OrElse(s.editingTicketId, Null) # Null THEN s
    ELSE [s EXCEPT !.editingTicketId = ticket.id,
                   !.editingTitle = ticket.title,
                   !.editingContent = OrElse(ticket.content, "")]

\* a startEdit without the guard: it loads the buffers whenever it is called
startEditAlways(s, ticket) ==
    [s EXCEPT !.editingTicketId = ticket.id,
              !.editingTitle = ticket.title,
              !.editingContent = OrElse(ticket.content, "")]

startEdit(s, ticket) ==
    IF s.editingTicketId = ticket.id THEN s
    ELSE [s EXCEPT !.editingTicketId = ticket.id,
                   !.editingTitle = ticket.title,
                   !.editingContent = OrElse(ticket.content, "")]

\* a saveEdit that compares the content buffer with the raw content, without || ''
saveEditRawContent(s, ticket) ==
    IF OrElse(s.editingTicketId, Null) = Null THEN s
    ELSE IF s.editingTitle # ticket.title \/ s.editingContent # ticket.content
    THEN IF ticket.column \notin DOMAIN s.ticketsByColumn
         THEN [s EXCEPT !.uncaught = TRUE]
         ELSE LET updatedTicket == [ticket EXCEPT !.title = s.editingTitle,
                                                  !.content = s.editingContent]
                  swap(t) == IF t.id = ticket.id THEN updatedTicket ELSE t
              IN Issue([s EXCEPT !.ticketsByColumn[ticket.column] = [i \in DOMAIN @ |-> swap(@[i])],
                                 !.editingTicketId = Null],
                       Call("update", [fn |-> "saveEdit"],
                            [id |-> ticket.id, title |-> s.editingTitle,
                             content |-> s.editingContent]))
    ELSE [s EXCEPT !.editingTicketId = Null]

\* a saveEdit without the guard on editingTicketId
saveEditUnguarded(s, ticket) ==
    IF s.editingTitle # ticket.title \/ s.editingContent # OrElse(ticket.content, "")
    THEN IF ticket.column \notin DOMAIN s.ticketsByColumn
         THEN [s EXCEPT !.uncaught = TRUE]
         ELSE LET updatedTicket == [ticket EXCEPT !.title = s.editingTitle,
                                                  !.content = s.editingContent]
                  swap(t) == IF t.id = ticket.id THEN updatedTicket ELSE t
              IN Issue([s EXCEPT !.ticketsByColumn[ticket.column] = [i \in DOMAIN @ |-> swap(@[i])],
                                 !.editingTicketId = Null],
                       Call("update", [fn |-> "saveEdit"],
                            [id |-> ticket.id, title |-> s.editingTitle,
                             content |-> s.editingContent]))
    ELSE [s EXCEPT !.editingTicketId = Null]

\* a saveEdit that leaves the card in edit mode after a changed save
saveEditStaysEditing(s, ticket) ==
    IF OrElse(s.editingTicketId, Null) = Null THEN s
    ELSE IF s.editingTitle # ticket.title \/ s.editingContent # OrElse(ticket.content, "")
    THEN IF ticket.column \notin DOMAIN s.ticketsByColumn
         THEN [s EXCEPT !.uncaught = TRUE]
         ELSE LET updatedTicket == [ticket EXCEPT !.title = s.editingTitle,
                                                  !.content = s.editingContent]
                  swap(t) == IF t.id = ticket.id THEN updatedTicket ELSE t
              IN Issue([s EXCEPT !.ticketsByColumn[ticket.column] = [i \in DOMAIN @ |-> swap(@[i])]],
                       Call("update", [fn |-> "saveEdit"],
                            [id |-> ticket.id, title |-> s.editingTitle,
                             content |-> s.editingContent]))
    ELSE [s EXCEPT !.editingTicketId = Null]

saveEdit(s, ticket) ==
    IF OrElse(s.editingTicketId, Null) = Null THEN s
    ELSE IF s.editingTitle # ticket.title \/ s.editingContent # OrElse(ticket.content, "")
    THEN IF ticket.column \notin DOMAIN s.ticketsByColumn
         THEN [s EXCEPT !.uncaught = TRUE]      \* .map of undefined: a TypeError
         ELSE LET updatedTicket == [ticket EXCEPT !.title = s.editingTitle,
                                                  !.content = s.editingContent]
                  swap(t) == IF t.id = ticket.id THEN updatedTicket ELSE t
              IN Issue([s EXCEPT !.ticketsByColumn[ticket.column] = [i \in DOMAIN @ |-> swap(@[i])],
                                 !.editingTicketId = Null],
                       Call("update", [fn |-> "saveEdit"],
                            [id |-> ticket.id, title |-> s.editingTitle,
                             content |-> s.editingContent]))
    ELSE [s EXCEPT !.editingTicketId = Null]

\* a continuation of saveEdit that sets the error and does not reload
saveEdit_updatedNoReload(s, m) ==
    IF ~m.ok THEN [s EXCEPT !.error = m.message] ELSE s

saveEdit_updated(s, m) ==
    IF ~m.ok THEN refreshTickets([s EXCEPT !.error = m.message], m.ctx) ELSE s

handleTicketEditBlur(s, inside, ticket) == IF inside THEN s ELSE saveEdit(s, ticket)

handleEditKeydown(s, key, shiftKey, ticket) ==
    IF key = "Enter" /\ ~shiftKey THEN saveEdit(s, ticket)
    ELSE IF key = "Escape" THEN [s EXCEPT !.editingTicketId = Null]
    ELSE s

\* a removeTicket that leaves the view model alone until the backend has answered
removeTicketRemoteOnly(s, ticket, ctx) ==
    IF ticket.column \notin DOMAIN s.ticketsByColumn
    THEN [s EXCEPT !.uncaught = TRUE]
    ELSE Issue(s, Call("delete", ctx, [id |-> ticket.id]))

removeTicket(s, ticket, ctx) ==
    IF ticket.column \notin DOMAIN s.ticketsByColumn
    THEN [s EXCEPT !.uncaught = TRUE]           \* .filter of undefined: a TypeError
    ELSE Issue([s EXCEPT !.ticketsByColumn[ticket.column] =
                             SelectSeq(@, LAMBDA t : t.id # ticket.id)],
               Call("delete", ctx, [id |-> ticket.id]))

removeTicket_deleted(s, m) ==
    IF ~m.ok THEN refreshTickets([s EXCEPT !.error = m.message], m.ctx) ELSE s

\* onMount: await refreshTickets(); await loadVotes(); votesUnsubscribe = subscribeToVotes(..)
onMount(s) == refreshTickets([s EXCEPT !.mounted = TRUE], [fn |-> "onMount"])

onMount_refreshed(s) == loadVotes(s, [fn |-> "onMount"])

\* an onMount that subscribes only when the bootstrap left no error
onMount_loadedUnlessError(s) ==
    IF s.error = Null THEN [s EXCEPT !.votesUnsubscribe = "unsubscribe"] ELSE s

\* supabase.channel(..) of subscribeToVotes: the mock client has no channel, and
\* the TypeError leaves onMount
onMount_loaded(s) ==
    IF s.configured THEN [s EXCEPT !.votesUnsubscribe = "unsubscribe"]
    ELSE [s EXCEPT !.uncaught = TRUE]

\* onDestroy: if (votesUnsubscribe) votesUnsubscribe(), which unsubscribes the channel
onDestroy(s) ==
    IF s.votesUnsubscribe # Null
    THEN [s EXCEPT !.destroyed = TRUE, !.disposed = @ + 1]
    ELSE [s EXCEPT !.destroyed = TRUE]

\* The rest of the handler that awaited call m.
Resume(s, m) ==
    CASE m.op = "fetchTickets" ->
           IF m.ctx.fn = "onMount" THEN onMount_refreshed(refreshTickets_fetched(s, m))
           ELSE refreshTickets_fetched(s, m)
      [] m.op = "fetchVotes" ->
           IF m.ctx.fn = "onMount" THEN onMount_loaded(loadVotes_fetched(s, m))
           ELSE loadVotes_fetched(s, m)
      [] m.op \in {"addVote", "removeVote"} -> toggleVote_written(s, m)
      [] m.op \in {"insert", "update", "delete"} /\ ~s.configured ->
           [s EXCEPT !.uncaught = TRUE]         \* the TypeError leaves the handler
      [] m.op = "insert" -> handleInstantAddTicket_inserted(s, m)
      [] m.op = "update" -> saveEdit_updated(s, m)
      [] m.op = "delete" -> removeTicket_deleted(s, m)

\* The mock client has no network: a call made on it throws, or returns its error,
\* in the task that made it, and the continuation runs in the microtasks of that
\* task.  So a handler on the mock client runs to its end in one step, every call
\* it makes failing with the mock's message.
RECURSIVE MockSettled(_)
MockSettled(s) ==
    IF s.calls = <<>> THEN s
    ELSE LET m == [s.calls[1] EXCEPT !.stage = "done", !.ok = FALSE,
                                     !.message = MockFailure(s.calls[1].op)]
         IN MockSettled(Resume([s EXCEPT !.calls = Tail(@)], m))

\* the page when the task of a handler has ended
Settled(s) == IF s.configured THEN s ELSE MockSettled(s)

----------------------------------------------------------------------------
(* The template. *)

\* {#if loading} .. {:else if error} .. {:else} the board, while the page is up
Rendered(s) == ~s.destroyed /\ ~s.loading /\ OrElse(s.error, Null) = Null

\* a sort with the comparator turned round: getVoteCount(a) - getVoteCount(b)
RECURSIVE SortByVotesAscending(_, _)
SortByVotesAscending(bucket, votes) ==
    IF bucket = <<>> THEN <<>>
    ELSE LET front == SortByVotesAscending(SubSeq(bucket, 1, Len(bucket) - 1), votes)
             x == bucket[Len(bucket)]
             k == Cardinality({i \in DOMAIN front :
                                  getVoteCount(votes, front[i]) <= getVoteCount(votes, x)})
         IN SubSeq(front, 1, k) \o <<x>> \o SubSeq(front, k + 1, Len(front))

\* Array.prototype.sort((a, b) => getVoteCount(b) - getVoteCount(a)): stable, and
\* it sorts the bucket itself
RECURSIVE SortByVotes(_, _)
SortByVotes(bucket, votes) ==
    IF bucket = <<>> THEN <<>>
    ELSE LET front == SortByVotes(SubSeq(bucket, 1, Len(bucket) - 1), votes)
             x == bucket[Len(bucket)]
             k == Cardinality({i \in DOMAIN front :
                                  getVoteCount(votes, front[i]) >= getVoteCount(votes, x)})
         IN SubSeq(front, 1, k) \o <<x>> \o SubSeq(front, k + 1, Len(front))

\* {#each columns as column} {#if ticketsByColumn[column.title]?.length}
\*   {#each ticketsByColumn[column.title].sort(..) as ticket (ticket.id)}
Render(s) ==
    IF Rendered(s)
    THEN LET byColumn == s.ticketsByColumn
         IN [s EXCEPT !.ticketsByColumn =
                [k \in DOMAIN byColumn |->
                    IF k \in ColumnTitles /\ Len(byColumn[k]) > 0
                    THEN SortByVotes(byColumn[k], s.votes)
                    ELSE byColumn[k]]]
    ELSE s

\* the tickets that have a card on the screen
Cards(s) ==
    IF Rendered(s)
    THEN UNION {Range(s.ticketsByColumn[k]) : k \in DOMAIN s.ticketsByColumn \cap ColumnTitles}
    ELSE {}

----------------------------------------------------------------------------
(* Steps. *)

\* the calls a handler issued, given the page before and after it ran
Issued(before, after) ==
    [i \in 1..(Len(after.calls) - Len(before.calls)) |->
        after.calls[Len(before.calls) + i].op]

\* the editing state of a page
Editing(s) ==
    [id |-> s.editingTicketId, title |-> s.editingTitle, content |-> s.editingContent]

\* the cards whose edit wrap is in the document: {#if editingTicketId === ticket.id}
\* inside the board
EditWrap(s) == {t \in Cards(s) : s.editingTicketId = t.id}

\* the page of c becomes s2 and the template re-renders; the step remembers the
\* edit wrap that was in the document before it
Act(c, s2, rec) ==
    /\ cl' = [cl EXCEPT ![c] = Render(Settled(s2))]
    /\ last' = rec @@ [wrap |-> EditWrap(cl[c])]

\* a user does something, at most `most` times
UserAction(most) ==
    /\ acts < most
    /\ acts' = acts + 1

Mount(c) ==
    LET s == cl[c] IN
    /\ ~s.mounted
    /\ Act(c, onMount(s), [step |-> "onMount", c |-> c, issued |-> Issued(s, onMount(s))])
    /\ UNCHANGED <<dbTickets, dbVotes, nextId, feed, localStorage, acts>>

\* the page is torn down
Destroy(c) ==
    LET s == cl[c] IN
    /\ s.mounted /\ ~s.destroyed
    /\ Act(c, onDestroy(s), [step |-> "onDestroy", c |-> c, issued |-> <<>>])
    /\ UNCHANGED <<dbTickets, dbVotes, nextId, feed, localStorage, acts>>

\* some code of the profile of c asks for the voter id
VoterId(c, uuid) ==
    LET r == getOrCreateVoterId(localStorage[c], uuid) IN
    /\ localStorage' = [localStorage EXCEPT ![c] = r.voter_id]
    /\ last' = [step |-> "getOrCreateVoterId", c |-> c, id |-> r.id, wrote |-> r.wrote,
                was |-> localStorage[c]]
    /\ UNCHANGED <<dbTickets, dbVotes, nextId, feed, cl, acts>>

\* click on the add button of a column
AddTicket(c, columnTitle) ==
    LET s == cl[c]
        s2 == handleInstantAddTicket(s, columnTitle)
    IN
    /\ Rendered(s)
    /\ Act(c, s2, [step |-> "handleInstantAddTicket", c |-> c, column |-> columnTitle,
                   issued |-> Issued(s, s2)])
    /\ UserAction(MaxActions)
    /\ UNCHANGED <<dbTickets, dbVotes, nextId, feed, localStorage>>

\* double click on a card
StartEdit(c, ticket) ==
    LET s == cl[c] IN
    /\ ticket \in Cards(s)
    /\ Act(c, startEdit(s, ticket),
           [step |-> "startEdit", c |-> c, ticket |-> ticket, was |-> Editing(s)])
    /\ UserAction(MaxActions)
    /\ UNCHANGED <<dbTickets, dbVotes, nextId, feed, localStorage>>

\* the card in edit mode shows the two bound fields
EditFields(s, ticket) == ticket \in Cards(s) /\ s.editingTicketId = ticket.id

\* typing into the title field: bind:value={editingTitle}
TypeTitle(c, text) ==
    LET s == cl[c] IN
    /\ \E ticket \in Cards(s) : EditFields(s, ticket)
    /\ text # s.editingTitle
    /\ Act(c, [s EXCEPT !.editingTitle = text], [step |-> "input", c |-> c])
    /\ UserAction(MaxActions)
    /\ UNCHANGED <<dbTickets, dbVotes, nextId, feed, localStorage>>

\* typing into the content field: bind:value={editingContent}
TypeContent(c, text) ==
    LET s == cl[c] IN
    /\ \E ticket \in Cards(s) : EditFields(s, ticket)
    /\ text # s.editingContent
    /\ Act(c, [s EXCEPT !.editingContent = text], [step |-> "input", c |-> c])
    /\ UserAction(MaxActions)
    /\ UNCHANGED <<dbTickets, dbVotes, nextId, feed, localStorage>>

\* a key pressed in one of the two fields
KeyDown(c, ticket, key, shiftKey) ==
    LET s == cl[c]
        s2 == handleEditKeydown(s, key, shiftKey, ticket)
    IN
    /\ EditFields(s, ticket)
    /\ Act(c, s2, [step |-> "handleEditKeydown", c |-> c, ticket |-> ticket,
                   key |-> key, shiftKey |-> shiftKey, was |-> Editing(s),
                   issued |-> Issued(s, s2)])
    /\ UserAction(MaxActions)
    /\ UNCHANGED <<dbTickets, dbVotes, nextId, feed, localStorage>>

\* focus leaves a field: to the other field (inside) or out of the card
FocusOut(c, ticket, inside) ==
    LET s == cl[c]
        s2 == handleTicketEditBlur(s, inside, ticket)
    IN
    /\ EditFields(s, ticket)
    /\ Act(c, s2, [step |-> "handleTicketEditBlur", c |-> c, ticket |-> ticket,
                   inside |-> inside, was |-> Editing(s), issued |-> Issued(s, s2)])
    /\ UserAction(MaxActions)
    /\ UNCHANGED <<dbTickets, dbVotes, nextId, feed, localStorage>>

\* the step taken last has taken an edit wrap out of the document: a key handler
\* or the response of an insert took its card out of edit mode, or the board
\* itself went (loading, error, teardown), or the card did.  The field that had
\* the focus leaves with it, and the browser may fire focusout on the wrap on its
\* way out, with no related target; the handler holds the ticket of the card.
\* After a focusout the focus is no longer in a wrap that goes.
FocusOutRemoved(c) ==
    LET s == cl[c] IN
    /\ "wrap" \in DOMAIN last /\ last.c = c /\ last.step # "handleTicketEditBlur"
    /\ \E ticket \in last.wrap :
          LET s2 == handleTicketEditBlur(s, FALSE, ticket) IN
          /\ \A t \in EditWrap(s) : t.id # ticket.id
          /\ Act(c, s2, [step |-> "handleTicketEditBlur", c |-> c, ticket |-> ticket,
                         inside |-> FALSE, was |-> Editing(s), issued |-> Issued(s, s2),
                         after |-> IF "key" \in DOMAIN last THEN last.key
                                   ELSE IF "call" \in DOMAIN last THEN last.call.op
                                   ELSE last.step])
    /\ UNCHANGED <<dbTickets, dbVotes, nextId, feed, localStorage, acts>>

\* click on the remove button, which a card shows when it is not in edit mode.
\* The call remembers its ticket and whether the collection still held it.
RemoveTicket(c, ticket) ==
    LET s == cl[c]
        ctx == [fn |-> "removeTicket", ticket |-> ticket.id,
                gone |-> \A n \in DOMAIN dbTickets : dbTickets[n].id # ticket.id]
        s2 == removeTicket(s, ticket, ctx)
    IN
    /\ ticket \in Cards(s)
    /\ s.editingTicketId # ticket.id
    /\ Act(c, s2, [step |-> "removeTicket", c |-> c, ticket |-> ticket,
                   issued |-> Issued(s, s2)])
    /\ UserAction(MaxActions)
    /\ UNCHANGED <<dbTickets, dbVotes, nextId, feed, localStorage>>

\* the toggleVote calls in flight on a (ticket, voter) pair
Toggling(s, ticketId, voterId) ==
    {i \in DOMAIN s.calls :
        /\ s.calls[i].ctx.fn = "toggleVote"
        /\ s.calls[i].ctx.ticket = ticketId
        /\ s.calls[i].ctx.voter = voterId}

Overlapped(s, ticketId, voterId) ==
    [s EXCEPT !.calls =
        [i \in DOMAIN s.calls |->
            IF i \in Toggling(s, ticketId, voterId)
            THEN [s.calls[i] EXCEPT !.ctx.overlapped = TRUE]
            ELSE s.calls[i]]]

CountVotes(rows, ticketId, voterId) ==
    Len(SelectSeq(rows, LAMBDA v : v.ticket_id = ticketId /\ v.voter_id = voterId))

\* click on the vote button of a card.  The call remembers how many votes the
\* collection held for the pair when it started and whether another toggleVote on
\* the pair was in flight at any time before it settled.
ToggleVote(c, ticket) ==
    LET s == cl[c]
        voterId == getCurrentVoterId(TRUE, localStorage[c], c)   \* a click: in the browser
        overlap == \E c2 \in Clients : Toggling(cl[c2], ticket.id, voterId) # {}
        ctx == [fn |-> "toggleVote", ticket |-> ticket.id, voter |-> voterId,
                before |-> CountVotes(dbVotes, ticket.id, voterId),
                overlapped |-> overlap]
        s2 == toggleVote(Overlapped(s, ticket.id, voterId), ticket, voterId, ctx)
    IN
    /\ ticket \in Cards(s)
    /\ localStorage' = [localStorage EXCEPT ![c] = voterId]
    /\ cl' = [c2 \in Clients |->
                 IF c2 = c THEN Render(Settled(s2))
                 ELSE Overlapped(cl[c2], ticket.id, voterId)]
    /\ last' = [step |-> "toggleVote", c |-> c, ticket |-> ticket.id,
                issued |-> Issued(s, s2)]
    /\ UserAction(MaxToggles)
    /\ UNCHANGED <<dbTickets, dbVotes, nextId, feed>>

\* the page's channel on the vote feed is open; for the vote store, one of the
\* channels it opened has not been unsubscribed
Subscribed(s) ==
    IF "channels" \in DOMAIN s
    THEN \E n \in DOMAIN s.channels : s.channels[n] = 0
    ELSE s.votesUnsubscribe # Null /\ s.disposed = 0

\* the backend serves a request: it fails and changes nothing, or it runs the query
Serve(c, i, ok) ==
    LET s == cl[c]
        m == s.calls[i]
    IN
    /\ i \in DOMAIN s.calls
    /\ m.stage = "sent"
    /\ s.configured
    /\ \E data \in (IF m.op = "fetchTickets" /\ ok THEN OrderedSelect(dbTickets) ELSE {<<>>}) :
         LET r == Served(m, data)
             reply == IF ok THEN [m EXCEPT !.stage = "done", !.data = r.data]
                      ELSE [m EXCEPT !.stage = "done", !.ok = FALSE,
                                     !.message = FailureMessage]
         IN
         /\ dbTickets' = IF ok THEN r.tickets ELSE dbTickets
         /\ dbVotes' = IF ok THEN r.votes ELSE dbVotes
         /\ nextId' = IF ok THEN r.nextId ELSE nextId
         /\ feed' = [c2 \in Clients |->
                        IF ok /\ Subscribed(cl[c2]) THEN feed[c2] + r.changed ELSE feed[c2]]
         /\ cl' = [cl EXCEPT ![c].calls[i] = reply]
         /\ last' = [step |-> "serve", c |-> c, op |-> m.op, ok |-> ok]
    /\ UNCHANGED <<localStorage, acts>>

\* a response arrives and the handler that awaited it runs on
Deliver(c, i) ==
    LET s == cl[c]
        m == s.calls[i]
        s1 == [s EXCEPT !.calls = Remove(@, i)]
        s2 == Resume(s1, m)
    IN
    /\ i \in DOMAIN s.calls
    /\ m.stage = "done"
    /\ Act(c, s2, [step |-> "deliver", c |-> c, call |-> m, issued |-> Issued(s1, s2),
                   was |-> Editing(s)])
    /\ UNCHANGED <<dbTickets, dbVotes, nextId, feed, localStorage, acts>>

\* the feed hands an event to the page's subscription: () => { loadVotes(); }
FeedEvent(c) ==
    LET s == cl[c]
        s2 == loadVotes(s, [fn |-> "subscribeToVotes"])
    IN
    /\ Subscribed(s)
    /\ feed[c] > 0
    /\ feed' = [feed EXCEPT ![c] = @ - 1]
    /\ Act(c, s2, [step |-> "feed", c |-> c, issued |-> Issued(s, s2)])
    /\ UNCHANGED <<dbTickets, dbVotes, nextId, localStorage, acts>>

----------------------------------------------------------------------------
(* Specifications. *)

Ticket(n, title, content, column, order) ==
    [id |-> TicketId(n), title |-> title, content |-> content, column |-> column,
     order |-> order]

InitPages ==
    /\ feed = [c \in Clients |-> 0]
    /\ cl = [c \in Clients |-> InitPage]
    /\ acts = 0
    /\ last = [step |-> "init"]

\* The board: two pages adding, editing and removing tickets.
InitBoard ==
    /\ dbTickets \in {<<>>, <<Ticket(1, "Retro", Null, "Good", 1)>>}
    /\ nextId = Len(dbTickets)
    /\ dbVotes = <<>>
    /\ localStorage = [c \in Clients |-> Null]
    /\ InitPages

NextBoard ==
    \E c \in {"c1"} :
        \/ Mount(c)
        \/ Destroy(c)
        \/ \E columnTitle \in AddColumns : AddTicket(c, columnTitle)
        \/ \E ticket \in Cards(cl[c]) : StartEdit(c, ticket)
        \/ \E text \in TypedTitles : TypeTitle(c, text)
        \/ \E text \in TypedContents : TypeContent(c, text)
        \/ \E ticket \in Cards(cl[c]), e \in KeyPresses :
               KeyDown(c, ticket, e.key, e.shiftKey)
        \/ \E ticket \in Cards(cl[c]), inside \in BOOLEAN : FocusOut(c, ticket, inside)
        \/ FocusOutRemoved(c)
        \/ \E ticket \in Cards(cl[c]) : RemoveTicket(c, ticket)
        \/ \E i \in DOMAIN cl[c].calls, ok \in BOOLEAN : Serve(c, i, ok)
        \/ \E i \in DOMAIN cl[c].calls : Deliver(c, i)

SpecBoard == InitBoard /\ [][NextBoard]_vars

\* Voting: one page, its browser profile new or known, on a board of two tickets.
VoteBoard == <<Ticket(1, "Retro", Null, "Good", 1), Ticket(2, "Demo", "", "Good", 2)>>

InitVote ==
    /\ dbTickets = VoteBoard
    /\ nextId = Len(dbTickets)
    /\ dbVotes = <<>>
    /\ localStorage \in [Clients -> {Null} \cup {RandomUUID(c) : c \in Clients}]
    /\ \A c \in Clients : localStorage[c] \in {Null, RandomUUID(c)}
    /\ InitPages

NextVote ==
    \E c \in {"c1"} :
        \/ Mount(c)
        \/ \E ticket \in Cards(cl[c]) : ToggleVote(c, ticket)
        \/ \E i \in DOMAIN cl[c].calls, ok \in BOOLEAN : Serve(c, i, ok)
        \/ \E i \in DOMAIN cl[c].calls : Deliver(c, i)
        \/ FeedEvent(c)

SpecVote == InitVote /\ [][NextVote]_vars

\* Two pages on one board: the user of c1 writes, the page of c2 only shows.
InitLive ==
    /\ dbTickets = <<Ticket(1, "Retro", Null, "Good", 1)>>
    /\ nextId = Len(dbTickets)
    /\ dbVotes = <<>>
    /\ localStorage = [c \in Clients |-> Null]
    /\ InitPages

NextLive ==
    \/ \E columnTitle \in AddColumns : AddTicket("c1", columnTitle)
    \/ \E ticket \in Cards(cl["c1"]) : StartEdit("c1", ticket)
    \/ \E text \in TypedTitles : TypeTitle("c1", text)
    \/ \E ticket \in Cards(cl["c1"]) : KeyDown("c1", ticket, "Enter", FALSE)
    \/ \E ticket \in Cards(cl["c1"]) : RemoveTicket("c1", ticket)
    \/ \E c \in Clients :
           \/ Mount(c)
           \/ \E i \in DOMAIN cl[c].calls, ok \in BOOLEAN : Serve(c, i, ok)
           \/ \E i \in DOMAIN cl[c].calls : Deliver(c, i)

SpecLive == InitLive /\ [][NextLive]_vars

\* fetchTickets on its own: a page mounts on any small ticket collection.
FetchColumns == {"Good", "Bad"}
FetchOrders == {1, 2}

FetchInputs ==
    UNION {{[i \in 1..n |-> Ticket(i, "Retro", Null, f[i][1], f[i][2])] :
               f \in [1..n -> FetchColumns \X FetchOrders]} : n \in 0..MaxRows}

InitFetch ==
    /\ dbTickets \in FetchInputs
    /\ nextId = Len(dbTickets)
    /\ dbVotes = <<>>
    /\ localStorage = [c \in Clients |-> Null]
    /\ InitPages

NextFetch ==
    \E c \in {"c1"} :
        \/ Mount(c)
        \/ \E i \in DOMAIN cl[c].calls, ok \in BOOLEAN : Serve(c, i, ok)
        \/ \E i \in DOMAIN cl[c].calls : Deliver(c, i)

SpecFetch == InitFetch /\ [][NextFetch]_vars

\* The life of a page: it mounts and is torn down at any moment.
NextLife ==
    \E c \in {"c1"} :
        \/ Mount(c)
        \/ Destroy(c)
        \/ \E i \in DOMAIN cl[c].calls, ok \in BOOLEAN : Serve(c, i, ok)
        \/ \E i \in DOMAIN cl[c].calls : Deliver(c, i)

SpecLife == InitFetch /\ [][NextLife]_vars

\* Counting: the page of a known voter on a board that already holds votes, of
\* two voters on one ticket, or of the page's voter twice around another row.
Vote(n, c) == [ticket_id |-> TicketId(n), voter_id |-> RandomUUID(c)]

TallyVotes ==
    {<<Vote(1, "c1"), Vote(1, "c2")>>,
     <<Vote(1, "c1"), Vote(2, "c2"), Vote(1, "c1")>>}

InitTally ==
    /\ dbTickets = VoteBoard
    /\ nextId = Len(dbTickets)
    /\ dbVotes \in TallyVotes
    /\ localStorage = [c \in Clients |-> IF c = "c1" THEN RandomUUID(c) ELSE Null]
    /\ InitPages

SpecTally == InitTally /\ [][NextVote]_vars

\* Two users remove tickets of one board, each on a page of their own.
NextGone ==
    \E c \in Clients :
        \/ Mount(c)
        \/ \E ticket \in Cards(cl[c]) : RemoveTicket(c, ticket)
        \/ \E i \in DOMAIN cl[c].calls, ok \in BOOLEAN : Serve(c, i, ok)
        \/ \E i \in DOMAIN cl[c].calls : Deliver(c, i)

SpecGone == InitLive /\ [][NextGone]_vars

\* Voting while editing: the page of a known voter on a board of one ticket.
InitBallot ==
    /\ dbTickets = <<Ticket(1, "Retro", Null, "Good", 1)>>
    /\ nextId = Len(dbTickets)
    /\ dbVotes = <<>>
    /\ localStorage = [c \in Clients |-> IF c = "c1" THEN RandomUUID(c) ELSE Null]
    /\ InitPages

NextBallot ==
    \E c \in {"c1"} :
        \/ Mount(c)
        \/ \E ticket \in Cards(cl[c]) : StartEdit(c, ticket)
        \/ \E text \in TypedTitles : TypeTitle(c, text)
        \/ \E ticket \in Cards(cl[c]) : ToggleVote(c, ticket)
        \/ \E i \in DOMAIN cl[c].calls, ok \in BOOLEAN : Serve(c, i, ok)
        \/ \E i \in DOMAIN cl[c].calls : Deliver(c, i)
        \/ FeedEvent(c)

SpecBallot == InitBallot /\ [][NextBallot]_vars

\* Voter identity: browser profiles with no usable 'voter_id' entry, and the ids
\* crypto.randomUUID() may return.
UUIDs == {RandomUUID(x) : x \in {"c1", "c2", "c3", "c4"}}

InitVoter ==
    /\ dbTickets = <<>>
    /\ nextId = 0
    /\ dbVotes = <<>>
    /\ localStorage \in [Clients -> {Null, ""}]
    /\ InitPages

NextVoter == \E c \in Clients, uuid \in UUIDs : VoterId(c, uuid)

SpecVoter == InitVoter /\ [][NextVoter]_vars

\* Missing configuration: two pages of a build without URL or key, whatever the
\* collection holds.
InitMock ==
    /\ dbTickets \in FetchInputs
    /\ nextId = Len(dbTickets)
    /\ dbVotes = <<>>
    /\ localStorage = [c \in Clients |-> Null]
    /\ feed = [c \in Clients |-> 0]
    /\ cl = [c \in Clients |-> [InitPage EXCEPT !.configured = FALSE]]
    /\ acts = 0
    /\ last = [step |-> "init"]

NextMock ==
    \E c \in Clients :
        \/ Mount(c)
        \/ Destroy(c)

SpecMock == InitMock /\ [][NextMock]_vars

\* the page after onMount has run to its end on a backend that answered with
\* `rows` and no votes
Bootstrapped(rows) ==
    LET answered(m, data) == [m EXCEPT !.stage = "done", !.data = data]
        s0 == onMount(InitPage)
        s1 == Resume([s0 EXCEPT !.calls = <<>>], answered(s0.calls[1], rows))
    IN Render(Resume([s1 EXCEPT !.calls = <<>>], answered(s1.calls[1], <<>>)))

\* Two edits of one ticket: the page has loaded the ticket, and the user has
\* double-clicked it, typed a title and pressed Enter; the update is in flight.
InitEdits ==
    LET ticket == Ticket(1, "Retro", Null, "Good", 1)
        s == Bootstrapped(<<ticket>>)
    IN
    /\ dbTickets = <<ticket>>
    /\ nextId = 1
    /\ dbVotes = <<>>
    /\ localStorage = [c \in Clients |-> Null]
    /\ feed = [c \in Clients |-> 0]
    /\ cl = [c \in Clients |->
                IF c = "c1"
                THEN Render(handleEditKeydown([startEdit(s, ticket) EXCEPT !.editingTitle = NewTitle],
                                              "Enter", FALSE, ticket))
                ELSE InitPage]
    /\ acts = 0
    /\ last = [step |-> "init"]

NextEdits ==
    \E c \in {"c1"} :
        \/ \E ticket \in Cards(cl[c]) : StartEdit(c, ticket)
        \/ \E text \in TypedTitles : TypeTitle(c, text)
        \/ \E text \in TypedContents : TypeContent(c, text)
        \/ \E ticket \in Cards(cl[c]), e \in KeyPresses :
               KeyDown(c, ticket, e.key, e.shiftKey)
        \/ \E ticket \in Cards(cl[c]), inside \in BOOLEAN : FocusOut(c, ticket, inside)
        \/ \E i \in DOMAIN cl[c].calls, ok \in BOOLEAN : Serve(c, i, ok)
        \/ \E i \in DOMAIN cl[c].calls : Deliver(c, i)

SpecEdits == InitEdits /\ [][NextEdits]_vars

\* The store variant: stores/ticketStore.ts and the vote store.
\* The stores are module state, held here in the record of one client; the
\* fields of a page that the steps of the backend read are kept at their
\* initial values.  `channels` counts, for each channel subscribeToVotes has
\* opened, the calls of its unsubscribe; `unsubscribeFunc` is the number of the
\* channel whose unsubscribe it holds, 0 for null; `cleanups` counts the cleanup
\* functions setupVoteSubscription has returned; `votesError` is the `error`
\* store of the vote store, `error` the one of ticketStore.
InitStore ==
    [tickets |-> <<>>, ticketsByColumn |-> <<>>, loading |-> TRUE, error |-> Null,
     editingTicketId |-> Null, editingTitle |-> "", editingContent |-> "",
     unsubscribeFunc |-> 0, channels |-> <<>>, cleanups |-> 0,
     votes |-> <<>>, votesError |-> Null, votesUnsubscribe |-> Null, mounted |-> FALSE, uncaught |-> FALSE,
     destroyed |-> FALSE, disposed |-> 0, configured |-> TRUE, calls |-> <<>>]

\* what Date.now() may return
Clock == {1, 2}
TempId(now) == "temp-" \o ToString(now)

\* data.forEach(..) on what fetchTickets returns, a Record<string, Ticket[]>
ForEachNotAFunction == "data.forEach is not a function"

ticketStore_refreshTickets(s, ctx) ==
    Issue([s EXCEPT !.loading = TRUE], Call("fetchTickets", ctx, <<>>))

\* (e instanceof Error) ? e.message : fallback.  What an api function rethrows
\* is the `error` member of the client library's answer; `instance` tells
\* whether the library in the build makes it an Error or a plain { message }.
CaughtMessage(m, instance, fallback) == IF instance THEN m.message ELSE fallback

\* after the await: fetchTickets has thrown, or it has returned its grouping,
\* which is an object and has no forEach, so that the TypeError is caught before
\* either store is set
ticketStore_refreshTickets_fetched(s, m, instance) ==
    LET s1 == IF m.ok
              THEN LET data == fetchTickets(m.data)
                   IN [s EXCEPT !.error = ForEachNotAFunction]
              ELSE [s EXCEPT !.error = CaughtMessage(m, instance, "Failed to load tickets.")]
    IN [s1 EXCEPT !.loading = FALSE]

\* no `order` is sent: the row takes the default of the column, 0 here
ticketStore_addTicket(s, columnTitle, now) ==
    LET newTicket == [title |-> "New ticket", content |-> "", column |-> columnTitle]
        temp == [id |-> TempId(now), title |-> newTicket.title,
                 content |-> newTicket.content, column |-> newTicket.column]
        columnTickets == Append(Bucket(s, columnTitle), temp)
    IN Issue([s EXCEPT !.ticketsByColumn = PutBucket(@, columnTitle, columnTickets)],
             Call("insert", [fn |-> "addTicket"],
                  [title |-> newTicket.title, content |-> newTicket.content,
                   column |-> newTicket.column, order |-> 0]))

ticketStore_addTicket_inserted(s, m) ==
    IF ~m.ok THEN ticketStore_refreshTickets([s EXCEPT !.error = m.message], m.ctx)
    ELSE ticketStore_refreshTickets(s, m.ctx)

\* {...t, ...updates}
Merge(t, updates) ==
    [k \in DOMAIN t \cup DOMAIN updates |-> IF k \in DOMAIN updates THEN updates[k] ELSE t[k]]

ticketStore_updateTicket(s, id, updates) ==
    LET currentTickets == s.tickets
        updatedTickets == [i \in DOMAIN currentTickets |->
                              IF currentTickets[i].id = id
                              THEN Merge(currentTickets[i], updates)
                              ELSE currentTickets[i]]
        updatedByColumn == GroupLoop(updatedTickets, <<>>)
    IN Issue([s EXCEPT !.tickets = updatedTickets, !.ticketsByColumn = updatedByColumn],
             Call("update", [fn |-> "updateTicket"],
                  [id |-> id, title |-> updates.title, content |-> updates.content]))

ticketStore_updateTicket_updated(s, m) ==
    IF ~m.ok THEN ticketStore_refreshTickets([s EXCEPT !.error = m.message], m.ctx) ELSE s

ticketStore_removeTicket(s, ticket) ==
    IF ticket.column \notin DOMAIN s.ticketsByColumn
    THEN \* .filter of undefined: the TypeError is caught
         ticketStore_refreshTickets([s EXCEPT !.error = "Cannot read properties of undefined (reading 'filter')"],
                                    [fn |-> "removeTicket"])
    ELSE Issue([s EXCEPT !.ticketsByColumn[ticket.column] =
                             SelectSeq(@, LAMBDA t : t.id # ticket.id)],
               Call("delete", [fn |-> "removeTicket"], [id |-> ticket.id]))

ticketStore_removeTicket_deleted(s, m) ==
    IF ~m.ok THEN ticketStore_refreshTickets([s EXCEPT !.error = m.message], m.ctx) ELSE s

\* the unsubscribe of channel n is called: channel.unsubscribe()
Unsubscribe(s, n) == [s EXCEPT !.channels[n] = @ + 1]

\* subscribeToVotes: a new channel, subscribed; its unsubscribe is the result
subscribeToVotes(s) == [s EXCEPT !.channels = Append(@, 0)]

setupVoteSubscription(s) ==
    LET s1 == IF s.unsubscribeFunc # 0 THEN Unsubscribe(s, s.unsubscribeFunc) ELSE s
        s2 == subscribeToVotes(s1)
    IN [s2 EXCEPT !.unsubscribeFunc = Len(s2.channels), !.cleanups = @ + 1]

\* the function setupVoteSubscription returns: () => { if (unsubscribeFunc) unsubscribeFunc(); }
setupVoteSubscription_cleanup(s) ==
    IF s.unsubscribeFunc # 0 THEN Unsubscribe(s, s.unsubscribeFunc) ELSE s

ticketStore_startEdit(s, ticket) ==
    IF s.editingTicketId = ticket.id THEN s
    ELSE [s EXCEPT !.editingTicketId = ticket.id,
                   !.editingTitle = ticket.title,
                   !.editingContent = OrElse(ticket.content, "")]

\* updateTicket is called and not awaited: it runs to its await, then
\* editingTicketId is set to null
ticketStore_saveEdit(s, ticket) ==
    IF s.editingTicketId = ticket.id
    THEN [ticketStore_updateTicket(s, ticket.id, [title |-> s.editingTitle,
                                                  content |-> s.editingContent])
             EXCEPT !.editingTicketId = Null]
    ELSE s

ticketStore_cancelEdit(s) == [s EXCEPT !.editingTicketId = Null]

\* the vote store: loadVotes, hasVoted and toggleVote of supabaseClient.ts
voteStore_loadVotes(s, ctx) == Issue(s, Call("fetchVotes", ctx, <<>>))

voteStore_loadVotes_fetched(s, m, instance) ==
    IF m.ok THEN [s EXCEPT !.votes = m.data]
    ELSE [s EXCEPT !.votesError = CaughtMessage(m, instance, "Failed to load votes.")]

voteStore_hasVoted(s, ticket, voterId) ==
    \E i \in DOMAIN s.votes :
        s.votes[i].ticket_id = ticket.id /\ s.votes[i].voter_id = voterId

voteStore_toggleVote(s, ticket, voterId) ==
    IF voteStore_hasVoted(s, ticket, voterId)
    THEN Issue(s, Call("removeVote", [fn |-> "toggleVote"],
                       [ticket_id |-> ticket.id, voter_id |-> voterId]))
    ELSE Issue(s, Call("addVote", [fn |-> "toggleVote"],
                       [ticket_id |-> ticket.id, voter_id |-> voterId]))

\* one try around the write and the reload: a failed write is caught, loadVotes
\* catches its own failure
voteStore_toggleVote_written(s, m, instance) ==
    IF m.ok THEN voteStore_loadVotes(s, m.ctx)
    ELSE [s EXCEPT !.votesError = CaughtMessage(m, instance, "Failed to update vote.")]

StoreResume(s, m, instance) ==
    CASE m.op = "fetchTickets" -> ticketStore_refreshTickets_fetched(s, m, instance)
      [] m.op = "insert" -> ticketStore_addTicket_inserted(s, m)
      [] m.op = "update" -> ticketStore_updateTicket_updated(s, m)
      [] m.op = "delete" -> ticketStore_removeTicket_deleted(s, m)
      [] m.op = "fetchVotes" -> voteStore_loadVotes_fetched(s, m, instance)
      [] m.op \in {"addVote", "removeVote"} -> voteStore_toggleVote_written(s, m, instance)

\* the tickets the store shows
Shown(s) == UNION {Range(s.ticketsByColumn[k]) : k \in DOMAIN s.ticketsByColumn}

\* the store of c becomes s2 by a call from a component
StoreCall(c, s2, rec, most) ==
    /\ cl' = [cl EXCEPT ![c] = s2]
    /\ last' = rec
    /\ UserAction(most)
    /\ UNCHANGED <<dbTickets, dbVotes, nextId, feed, localStorage>>

\* a component loads the board, once
StoreRefresh(c) ==
    LET s == cl[c] IN
    /\ ~s.mounted
    /\ cl' = [cl EXCEPT ![c] = ticketStore_refreshTickets([s EXCEPT !.mounted = TRUE],
                                                          [fn |-> "refreshTickets"])]
    /\ last' = [step |-> "refreshTickets", c |-> c]
    /\ UNCHANGED <<dbTickets, dbVotes, nextId, feed, localStorage, acts>>

StoreAddTicket(c, columnTitle, now) ==
    StoreCall(c, ticketStore_addTicket(cl[c], columnTitle, now),
              [step |-> "addTicket", c |-> c, column |-> columnTitle, id |-> TempId(now)],
              MaxStoreCalls)

StoreUpdateTicket(c, id, updates) ==
    StoreCall(c, ticketStore_updateTicket(cl[c], id, updates),
              [step |-> "updateTicket", c |-> c, id |-> id, updates |-> updates],
              MaxStoreCalls)

StoreRemoveTicket(c, ticket) ==
    StoreCall(c, ticketStore_removeTicket(cl[c], ticket),
              [step |-> "removeTicket", c |-> c, ticket |-> ticket], MaxStoreCalls)

SetupVoteSubscription(c) ==
    StoreCall(c, setupVoteSubscription(cl[c]), [step |-> "setupVoteSubscription", c |-> c],
              MaxSubscriptions)

Cleanup(c) ==
    /\ cl[c].cleanups > 0
    /\ StoreCall(c, setupVoteSubscription_cleanup(cl[c]), [step |-> "cleanup", c |-> c],
                 MaxSubscriptions)

StoreStartEdit(c, ticket) ==
    StoreCall(c, ticketStore_startEdit(cl[c], ticket),
              [step |-> "startEdit", c |-> c, ticket |-> ticket], MaxStoreEdits)

StoreSaveEdit(c, ticket) ==
    LET s2 == ticketStore_saveEdit(cl[c], ticket) IN
    StoreCall(c, s2, [step |-> "saveEdit", c |-> c, ticket |-> ticket,
                      issued |-> Issued(cl[c], s2)], MaxStoreEdits)

StoreCancelEdit(c) ==
    StoreCall(c, ticketStore_cancelEdit(cl[c]), [step |-> "cancelEdit", c |-> c],
              MaxStoreEdits)

\* a component calls loadVotes()
StoreLoadVotes(c) ==
    StoreCall(c, voteStore_loadVotes(cl[c], [fn |-> "loadVotes"]),
              [step |-> "loadVotes", c |-> c], MaxStoreCalls)

\* a component calls hasVoted(ticket): getOrCreateVoterId() runs
StoreHasVoted(c, ticket) ==
    LET r == getOrCreateVoterId(localStorage[c], RandomUUID(c)) IN
    /\ localStorage' = [localStorage EXCEPT ![c] = r.voter_id]
    /\ last' = [step |-> "hasVoted", c |-> c, ticket |-> ticket.id,
                result |-> voteStore_hasVoted(cl[c], ticket, r.id)]
    /\ UserAction(MaxStoreCalls)
    /\ UNCHANGED <<dbTickets, dbVotes, nextId, feed, cl>>

\* a component calls toggleVote(ticket)
StoreToggleVote(c, ticket) ==
    LET r == getOrCreateVoterId(localStorage[c], RandomUUID(c))
        s2 == voteStore_toggleVote(cl[c], ticket, r.id)
    IN
    /\ localStorage' = [localStorage EXCEPT ![c] = r.voter_id]
    /\ cl' = [cl EXCEPT ![c] = s2]
    /\ last' = [step |-> "toggleVote", c |-> c, ticket |-> ticket.id,
                issued |-> Issued(cl[c], s2)]
    /\ UserAction(MaxStoreCalls)
    /\ UNCHANGED <<dbTickets, dbVotes, nextId, feed>>

\* the feed hands an event to the store's channel: () => { loadVotes(); }
StoreFeedEvent(c) ==
    LET s == cl[c]
        s2 == voteStore_loadVotes(s, [fn |-> "subscribeToVotes"])
    IN
    /\ Subscribed(s)
    /\ feed[c] > 0
    /\ feed' = [feed EXCEPT ![c] = @ - 1]
    /\ cl' = [cl EXCEPT ![c] = s2]
    /\ last' = [step |-> "feed", c |-> c, issued |-> Issued(s, s2)]
    /\ UNCHANGED <<dbTickets, dbVotes, nextId, localStorage, acts>>

\* a response arrives and the function that awaited it runs on; `instance` is
\* read only when the call failed
StoreDeliver(c, i, instance) ==
    LET s == cl[c]
        m == s.calls[i]
        s1 == [s EXCEPT !.calls = Remove(@, i)]
        s2 == StoreResume(s1, m, instance)
    IN
    /\ i \in DOMAIN s.calls
    /\ m.stage = "done"
    /\ m.ok => instance
    /\ cl' = [cl EXCEPT ![c] = s2]
    /\ last' = [step |-> "deliver", c |-> c, call |-> m, issued |-> Issued(s1, s2)]
    /\ UNCHANGED <<dbTickets, dbVotes, nextId, feed, localStorage, acts>>

StoreUpdates == {[title |-> "Retro", content |-> "Demo"]}

InitStores ==
    /\ dbTickets \in {<<>>, <<Ticket(1, "Retro", Null, "Good", 1)>>}
    /\ nextId = Len(dbTickets)
    /\ dbVotes = <<>>
    /\ localStorage = [c \in Clients |-> Null]
    /\ feed = [c \in Clients |-> 0]
    /\ cl = [c \in Clients |-> IF c = "c1" THEN InitStore ELSE InitPage]
    /\ acts = 0
    /\ last = [step |-> "init"]

NextStore ==
    \E c \in {"c1"} :
        \/ StoreRefresh(c)
        \/ \E columnTitle \in AddColumns, now \in Clock : StoreAddTicket(c, columnTitle, now)
        \/ \E t \in Shown(cl[c]) \cup Range(cl[c].tickets), updates \in StoreUpdates :
               StoreUpdateTicket(c, t.id, updates)
        \/ \E ticket \in Shown(cl[c]) : StoreRemoveTicket(c, ticket)
        \/ \E ticket \in Shown(cl[c]) \cup Range(cl[c].tickets) : StoreStartEdit(c, ticket)
        \/ \E ticket \in Shown(cl[c]) \cup Range(cl[c].tickets) : StoreSaveEdit(c, ticket)
        \/ StoreCancelEdit(c)
        \/ \E i \in DOMAIN cl[c].calls, ok \in BOOLEAN : Serve(c, i, ok)
        \/ \E i \in DOMAIN cl[c].calls, instance \in BOOLEAN : StoreDeliver(c, i, instance)

SpecStore == InitStores /\ [][NextStore]_vars

\* The vote store: components set up the subscription and call the cleanups
\* they were given, load the votes, ask whether the user has voted and toggle
\* votes; the feed reports the changes of the vote collection.
NextChannels ==
    \E c \in {"c1"} :
        \/ SetupVoteSubscription(c)
        \/ Cleanup(c)
        \/ StoreLoadVotes(c)
        \/ \E ticket \in Range(dbTickets) : StoreHasVoted(c, ticket)
        \/ \E ticket \in Range(dbTickets) : StoreToggleVote(c, ticket)
        \/ StoreFeedEvent(c)
        \/ \E i \in DOMAIN cl[c].calls, ok \in BOOLEAN : Serve(c, i, ok)
        \/ \E i \in DOMAIN cl[c].calls, instance \in BOOLEAN : StoreDeliver(c, i, instance)

SpecChannels == InitStores /\ [][NextChannels]_vars

\* The error flag: the page of a known voter on a board of one ticket, with every
\* operation of the page: adding, editing, removing, voting, and the feed.
NextError ==
    \E c \in {"c1"} :
        \/ Mount(c)
        \/ AddTicket(c, "Good")
        \/ \E ticket \in Cards(cl[c]) : StartEdit(c, ticket)
        \/ \E text \in TypedTitles : TypeTitle(c, text)
        \/ \E ticket \in Cards(cl[c]) : KeyDown(c, ticket, "Enter", FALSE)
        \/ FocusOutRemoved(c)
        \/ \E ticket \in Cards(cl[c]) : RemoveTicket(c, ticket)
        \/ \E ticket \in Cards(cl[c]) : ToggleVote(c, ticket)
        \/ \E i \in DOMAIN cl[c].calls, ok \in BOOLEAN : Serve(c, i, ok)
        \/ \E i \in DOMAIN cl[c].calls : Deliver(c, i)
        \/ FeedEvent(c)

SpecError == InitBallot /\ [][NextError]_vars

\* Display order: a page mounts on a board of three tickets of one column, all of
\* the same `order`, and on any small vote collection of another voter.
SortBoard == [i \in 1..3 |-> Ticket(i, "Retro", Null, "Good", 1)]
SortVotes == {[ticket_id |-> SortBoard[i].id, voter_id |-> RandomUUID("c2")] : i \in 1..3}

InitSort ==
    /\ dbTickets = SortBoard
    /\ nextId = Len(dbTickets)
    /\ dbVotes \in UNION {[1..n -> SortVotes] : n \in 0..MaxVotes}
    /\ localStorage = [c \in Clients |-> Null]
    /\ InitPages

NextSort ==
    \E c \in {"c1"} :
        \/ Mount(c)
        \/ \E i \in DOMAIN cl[c].calls, ok \in BOOLEAN : Serve(c, i, ok)
        \/ \E i \in DOMAIN cl[c].calls : Deliver(c, i)

SpecSort == InitSort /\ [][NextSort]_vars

----------------------------------------------------------------------------
(* Properties. *)

\* nothing is in flight anywhere: no call, no feed event
Quiet == \A c \in Clients : cl[c].calls = <<>> /\ feed[c] = 0

\* the step taken last was the continuation of call `op` of a page
Delivered(op) == last.step = "deliver" /\ last.call.op = op

\* the step taken last called saveEdit: Enter without shift, or focus left the card
SaveEditCalled ==
    \/ last.step = "handleEditKeydown" /\ last.key = "Enter" /\ ~last.shiftKey
    \/ last.step = "handleTicketEditBlur" /\ ~last.inside

\* C1: the vote collection never holds two Votes of one (ticket_id, voter_id) pair.
AtMostOneVotePerPair ==
    \A i, j \in DOMAIN dbVotes :
        VoteMatches(dbVotes[i], dbVotes[j]) => i = j

\* C2: when a toggleVote has settled without error and no other toggleVote on the
\* pair was in flight meanwhile, the collection holds one Vote of the pair if it
\* held none when the call started, and none if it held one.
ToggleVoteFlips ==
    (/\ Delivered("fetchVotes")
     /\ last.call.ctx.fn = "toggleVote"
     /\ last.call.ok
     /\ ~last.call.ctx.overlapped)
    => CountVotes(dbVotes, last.call.ctx.ticket, last.call.ctx.voter)
           = (IF last.call.ctx.before = 0 THEN 1 ELSE 0)

\* C3: once nothing is in flight any more, a page that has finished its bootstrap
\* and whose user did nothing shows exactly the tickets of the collection, so
\* every ticket another page added, edited or deleted has reached it.
Watchers == Clients \ {"c1"}

TicketChangesReachEveryPage ==
    \A c \in Watchers :
        (Quiet /\ Subscribed(cl[c]) /\ Rendered(cl[c]))
        => Cards(cl[c]) = Range(dbTickets)

\* C4: once vote changes have stopped, every feed event is delivered and every
\* fetch has answered, the votes list of a subscribed page on which no call ever
\* failed is the content of the vote collection; in particular when the answer
\* that arrived last was the one to a fetch the subscription triggered.
VotesConsistentWhenQuiet ==
    \A c \in Clients :
        (/\ Quiet /\ Subscribed(cl[c]) /\ cl[c].error = Null
         /\ Delivered("fetchVotes") /\ last.c = c /\ last.call.ctx.fn = "subscribeToVotes")
        => cl[c].votes = dbVotes

\* the view model of page s shows what write m asks the backend for
Reflects(s, m) ==
    CASE m.op = "insert" ->
           \E t \in Range(Bucket(s, m.arg.column)) :
               t.title = m.arg.title /\ t.content = m.arg.content /\ t.order = m.arg.order
      [] m.op = "update" ->
           \E k \in DOMAIN s.ticketsByColumn : \E t \in Range(s.ticketsByColumn[k]) :
               t.id = m.arg.id /\ t.title = m.arg.title /\ t.content = m.arg.content
      [] m.op = "delete" ->
           \A k \in DOMAIN s.ticketsByColumn : \A t \in Range(s.ticketsByColumn[k]) :
               t.id # m.arg.id
      [] m.op = "addVote" -> \E v \in Range(s.votes) : VoteMatches(v, m.arg)
      [] m.op = "removeVote" -> \A v \in Range(s.votes) : ~VoteMatches(v, m.arg)
      [] OTHER -> TRUE

\* C5: while a write (ticket add, edit, delete, vote toggle) is in flight, the view
\* model of the page that issued it already shows the change.
OptimisticWriteOrdering ==
    \A c \in Clients : \A i \in DOMAIN cl[c].calls : Reflects(cl[c], cl[c].calls[i])

\* C6: when the insert of an add or the delete of a removal has failed, the
\* continuation sets the error flag to the failure's message and calls
\* refreshTickets, which issues a fetchTickets.
AddAndDeleteFailureReload ==
    ((Delivered("insert") \/ Delivered("delete")) /\ ~last.call.ok)
    => /\ cl[last.c].error = last.call.message
       /\ last.issued = <<"fetchTickets">>

\* C7: when the update of a saveEdit has failed, the error flag is set and a
\* fetchTickets has been issued after the failure.
UpdateFailureReload ==
    (Delivered("update") /\ ~last.call.ok)
    => /\ cl[last.c].error = last.call.message
       /\ cl[last.c].error # Null
       /\ last.issued = <<"fetchTickets">>
       /\ \E i \in DOMAIN cl[last.c].calls :
              cl[last.c].calls[i].op = "fetchTickets" /\ cl[last.c].calls[i].stage = "sent"

UpdateFailureReloadWitness ==
    /\ Delivered("update") /\ ~last.call.ok
    /\ cl[last.c].error = FailureMessage
    /\ cl[last.c].loading
    /\ last.issued = <<"fetchTickets">>

\* saveEdit was called on the ticket in edit mode with the buffers equal to the
\* ticket's title and content
SaveEditUnchanged ==
    /\ SaveEditCalled
    /\ last.was.id = last.ticket.id
    /\ last.was.title = last.ticket.title
    /\ last.was.content = OrElse(last.ticket.content, "")

\* C8: saveEdit on the ticket in edit mode, with buffers equal to the ticket's
\* title and content, issues no remote call and leaves editingTicketId null.
SaveEditUnchangedNoWrite ==
    SaveEditUnchanged => last.issued = <<>> /\ cl[last.c].editingTicketId = Null

SaveEditUnchangedWitness ==
    /\ SaveEditUnchanged
    /\ last.ticket.content = Null
    /\ cl[last.c].calls = <<>>
    /\ cl[last.c].editingTicketId = Null

\* the cards the template renders in edit mode
EditModeCards(s) ==
    IF Rendered(s)
    THEN UNION {{<<k, i>> : i \in {j \in DOMAIN s.ticketsByColumn[k] :
                                      s.ticketsByColumn[k][j].id = s.editingTicketId}} :
                   k \in DOMAIN s.ticketsByColumn \cap ColumnTitles}
    ELSE {}

\* startEdit(A) ran while another ticket was being edited
StartEditWhileEditing ==
    /\ last.step = "startEdit"
    /\ last.was.id # Null
    /\ last.was.id # last.ticket.id

\* C9: at most one card is in edit mode, and after startEdit(A) during the edit of
\* B the editing state is A's: its id, its title and its content.
AtMostOneEdit ==
    /\ \A c \in Clients : Cardinality(EditModeCards(cl[c])) <= 1
    /\ StartEditWhileEditing
       => Editing(cl[last.c]) = [id |-> last.ticket.id, title |-> last.ticket.title,
                                 content |-> OrElse(last.ticket.content, "")]

AtMostOneEditWitness ==
    /\ StartEditWhileEditing
    /\ last.was.title # last.ticket.title
    /\ last.was.content # OrElse(last.ticket.content, "")
    /\ cl[last.c].editingTicketId = last.ticket.id
    /\ Cardinality(EditModeCards(cl[last.c])) = 1

\* where row t stands in the rows a fetch returned
Position(data, t) == CHOOSE i \in DOMAIN data : data[i] = t

\* grouped is the partition of data by column, in the order of data
Partitions(data, grouped) ==
    /\ \A t \in Range(data) :
          /\ t.column \in DOMAIN grouped
          /\ Cardinality({i \in DOMAIN grouped[t.column] : grouped[t.column][i] = t}) = 1
          /\ \A k \in DOMAIN grouped \ {t.column} : t \notin Range(grouped[k])
    /\ \A k \in DOMAIN grouped :
          /\ Range(grouped[k]) \subseteq Range(data)
          /\ \A i, j \in DOMAIN grouped[k] :
                 i < j => /\ grouped[k][i].order <= grouped[k][j].order
                          /\ Position(data, grouped[k][i]) < Position(data, grouped[k][j])

\* C10: after a fetchTickets that succeeded, every returned ticket is exactly once
\* in the bucket of its column and in no other, each bucket is non-decreasing in
\* `order` and keeps the fetch order, and no bucket holds a ticket not returned.
FetchTicketsPartitions ==
    (Delivered("fetchTickets") /\ last.call.ok)
    => Partitions(last.call.data, cl[last.c].ticketsByColumn)

FetchTicketsPartitionsWitness ==
    /\ Delivered("fetchTickets") /\ last.call.ok
    /\ Len(last.call.data) = 3
    /\ \E k \in DOMAIN cl[last.c].ticketsByColumn :
           /\ Len(cl[last.c].ticketsByColumn[k]) = 2
           /\ cl[last.c].ticketsByColumn[k][1].order < cl[last.c].ticketsByColumn[k][2].order
           /\ cl[last.c].ticketsByColumn[k][1].id # last.call.data[1].id

\* how often x stands in sequence q
Occurrences(q, x) == Cardinality({i \in DOMAIN q : q[i] = x})

\* a holds the elements of b, each as often as b holds it
IsPermutation(a, b) ==
    /\ Len(a) = Len(b)
    /\ \A x \in Range(a) \cup Range(b) : Occurrences(a, x) = Occurrences(b, x)

\* the vote count over `votes` does not rise along the bucket
NonIncreasing(bucket, votes) ==
    \A i, j \in DOMAIN bucket :
        i < j => Cardinality({n \in DOMAIN votes : votes[n].ticket_id = bucket[i].id})
                     >= Cardinality({n \in DOMAIN votes : votes[n].ticket_id = bucket[j].id})

\* C11: when a reload of the votes has re-rendered the board, every column shows
\* its tickets in an order of non-increasing vote count over the votes list, and
\* the column's bucket is a permutation of the bucket before the re-sort.
DisplayOrdering ==
    [][\A c \in Clients :
          (/\ last'.step = "deliver" /\ last'.c = c /\ last'.call.op = "fetchVotes"
           /\ Rendered(cl'[c]))
          => /\ DOMAIN cl'[c].ticketsByColumn = DOMAIN cl[c].ticketsByColumn
             /\ \A k \in DOMAIN cl'[c].ticketsByColumn :
                    /\ NonIncreasing(cl'[c].ticketsByColumn[k], cl'[c].votes)
                    /\ IsPermutation(cl'[c].ticketsByColumn[k], cl[c].ticketsByColumn[k])]_vars

DisplayOrderingWitness ==
    /\ Delivered("fetchVotes") /\ last.call.ok
    /\ Rendered(cl[last.c])
    /\ LET bucket == cl[last.c].ticketsByColumn["Good"]
           votes == cl[last.c].votes
       IN /\ Len(bucket) = 3
          /\ bucket[1].id = TicketId(3) /\ bucket[3].id = TicketId(2)
          /\ getVoteCount(votes, bucket[1]) > getVoteCount(votes, bucket[2])
          /\ getVoteCount(votes, bucket[2]) > getVoteCount(votes, bucket[3])

\* C12: a page never calls the disposer of its vote subscription twice, and once
\* the page is torn down and none of its calls is pending any more, the
\* subscription it opened has been disposed of once.
DisposedExactlyOnce ==
    \A c \in Clients :
        /\ cl[c].disposed <= 1
        /\ (cl[c].destroyed /\ cl[c].calls = <<>> /\ cl[c].votesUnsubscribe # Null)
           => cl[c].disposed = 1

\* C13: no step of a page whose error flag is set leaves the flag unset, so after
\* the step the page still does not show the board; the steps are those of
\* refreshTickets, loadVotes, add, saveEdit, removeTicket, toggleVote and the
\* feed-triggered reload, their responses succeeding or failing.
ErrorIsTerminal ==
    [][\A c \in Clients :
          OrElse(cl[c].error, Null) # Null
          => OrElse(cl'[c].error, Null) # Null /\ ~Rendered(cl'[c])]_vars

\* a feed-triggered reload has succeeded and installed the votes of a toggle that
\* went through, on a page whose error flag was set: the flag is still set
ErrorIsTerminalWitness ==
    /\ Delivered("fetchVotes") /\ last.call.ok
    /\ last.call.ctx.fn = "subscribeToVotes"
    /\ last.call.data # <<>> /\ cl[last.c].votes = last.call.data
    /\ cl[last.c].error = FailureMessage
    /\ ~Rendered(cl[last.c])

\* call `op` of the bootstrap of page s is in flight
Bootstrapping(s, op) ==
    \E i \in DOMAIN s.calls : s.calls[i].ctx.fn = "onMount" /\ s.calls[i].op = op

\* C14: onMount first issues fetchTickets alone; fetchVotes is issued by the step
\* that settles fetchTickets, failed or not, and the two are never in flight
\* together; the subscription is registered by the step that settles fetchVotes,
\* failed or not, and never while a bootstrap fetch is in flight.
BootstrapOrdering ==
    /\ last.step = "onMount" => last.issued = <<"fetchTickets">>
    /\ \A c \in Clients :
          /\ ~(Bootstrapping(cl[c], "fetchTickets") /\ Bootstrapping(cl[c], "fetchVotes"))
          /\ cl[c].votesUnsubscribe # Null
             => ~Bootstrapping(cl[c], "fetchTickets") /\ ~Bootstrapping(cl[c], "fetchVotes")
          /\ (Bootstrapping(cl[c], "fetchTickets") \/ Bootstrapping(cl[c], "fetchVotes"))
             => cl[c].votesUnsubscribe = Null
    /\ (last.step = "deliver" /\ last.call.ctx.fn = "onMount")
       => IF last.call.op = "fetchTickets"
          THEN last.issued = <<"fetchVotes">> /\ cl[last.c].votesUnsubscribe = Null
          ELSE last.issued = <<>> /\ cl[last.c].votesUnsubscribe # Null

BootstrapOrderingWitness ==
    /\ Delivered("fetchVotes") /\ last.call.ctx.fn = "onMount" /\ ~last.call.ok
    /\ dbTickets # <<>> /\ cl[last.c].ticketsByColumn = <<>>
    /\ cl[last.c].error = FailureMessage
    /\ cl[last.c].votesUnsubscribe # Null

\* C15: the step that settles a bootstrap fetch leaves loading false; it sets the
\* error flag to the failure's message if the fetch failed and leaves the flag as
\* it was if not.  So when fetchVotes, the last of the two, has settled: if both
\* succeeded the flag is null and the board is shown, and if one failed the flag
\* holds the failure's message and the board is not shown.
BootstrapOutcome ==
    [][\A c \in Clients :
          (last'.step = "deliver" /\ last'.c = c /\ last'.call.ctx.fn = "onMount")
          => /\ ~cl'[c].loading
             /\ cl'[c].error = IF last'.call.ok THEN cl[c].error ELSE last'.call.message
             /\ last'.call.op = "fetchTickets" => cl[c].error = Null
             /\ last'.call.op = "fetchVotes"
                => IF last'.call.ok /\ cl[c].error = Null
                   THEN cl'[c].error = Null /\ Rendered(cl'[c])
                   ELSE cl'[c].error = FailureMessage /\ ~Rendered(cl'[c])]_vars

BootstrapOutcomeWitness ==
    /\ Delivered("fetchVotes") /\ last.call.ctx.fn = "onMount" /\ last.call.ok
    /\ ~cl[last.c].loading
    /\ cl[last.c].error = Null
    /\ Cards(cl[last.c]) = Range(dbTickets) /\ dbTickets # <<>>

\* the step taken last was Escape pressed in an edit field, or the focusout that
\* follows it when the field leaves the document
Escaped ==
    \/ last.step = "handleEditKeydown" /\ last.key = "Escape"
    \/ last.step = "handleTicketEditBlur" /\ "after" \in DOMAIN last /\ last.after = "Escape"

\* C16: after Escape in an edit session, and after a focusout that follows it,
\* editingTicketId is null, no remote call has been issued, and the view model
\* still holds the ticket as the card showed it.
EscapeDiscards ==
    Escaped => /\ cl[last.c].editingTicketId = Null
               /\ last.issued = <<>>
               /\ \E t \in Range(Bucket(cl[last.c], last.ticket.column)) : t = last.ticket

EscapeDiscardsWitness ==
    /\ last.step = "handleTicketEditBlur" /\ "after" \in DOMAIN last /\ last.after = "Escape"
    /\ last.was.title # last.ticket.title
    /\ cl[last.c].calls = <<>>
    /\ last.ticket \in Cards(cl[last.c])

\* C17: startEdit on the ticket that is in edit mode leaves editingTicketId,
\* editingTitle and editingContent as they were.
StartEditSameTicket ==
    (last.step = "startEdit" /\ last.was.id = last.ticket.id)
    => Editing(cl[last.c]) = last.was

StartEditSameTicketWitness ==
    /\ last.step = "startEdit" /\ last.was.id = last.ticket.id
    /\ last.was.title # last.ticket.title
    /\ cl[last.c].editingTitle = last.was.title
    /\ EditFields(cl[last.c], last.ticket)

\* C18: the step that settles a successful insert of handleInstantAddTicket(column)
\* makes the column's bucket its content before the step followed by the one
\* ticket the insert returned, titled "New Ticket" with the placeholder content,
\* leaves every other bucket as it was, and puts that ticket in edit mode.
AddResult ==
    [][\A c \in Clients :
          (/\ last'.step = "deliver" /\ last'.c = c
           /\ last'.call.op = "insert" /\ last'.call.ok)
          => LET column == last'.call.ctx.column
                 new == last'.call.data[1]
                 before == cl[c].ticketsByColumn
                 after == cl'[c].ticketsByColumn
             IN /\ Len(last'.call.data) = 1
                /\ new.title = "New Ticket"
                /\ new.content = "Double-click to edit title and details"
                /\ new.column = column
                /\ DOMAIN after = DOMAIN before \cup {column}
                /\ after[column] =
                       (IF column \in DOMAIN before THEN before[column] ELSE <<>>) \o <<new>>
                /\ \A k \in DOMAIN before \ {column} : after[k] = before[k]
                /\ Editing(cl'[c]) = [id |-> new.id, title |-> new.title,
                                      content |-> new.content]]_vars

AddResultWitness ==
    /\ Delivered("insert") /\ last.call.ok
    /\ LET s == cl[last.c]
           bucket == Bucket(s, last.call.ctx.column)
       IN /\ Len(bucket) = 2
          /\ bucket[1].title = "Retro"
          /\ bucket[2].title = NewTitle /\ bucket[2].content = NewContent
          /\ s.editingTicketId = bucket[2].id
          /\ EditFields(s, bucket[2])

\* the rows of `rows` that are not of the pair of `arg`, in their order
RowsLeft(rows, arg) ==
    LET kept == {i \in DOMAIN rows :
                    rows[i].ticket_id # arg.ticket_id \/ rows[i].voter_id # arg.voter_id}
    IN [n \in 1..Cardinality(kept) |->
           rows[CHOOSE i \in kept : Cardinality({j \in kept : j <= i}) = n]]

\* C19: getVoteCount of a ticket is the number of rows of the local votes list with
\* the ticket's id; a removeVote that succeeds takes every row of its (ticket,
\* voter) pair out of the collection and leaves the other rows in place; and a
\* reload makes the local list, and so the counts, those of the rows fetched.
VoteCountingAndRemoval ==
    [][\A c \in Clients :
          /\ \A n \in DOMAIN dbTickets :
                getVoteCount(cl'[c].votes, dbTickets[n])
                    = Cardinality({i \in DOMAIN cl'[c].votes :
                                      cl'[c].votes[i].ticket_id = dbTickets[n].id})
          /\ (last'.step = "serve" /\ last'.c = c /\ last'.op = "removeVote" /\ last'.ok)
             => \E i \in DOMAIN cl[c].calls :
                    /\ cl[c].calls[i].stage = "sent" /\ cl'[c].calls[i].stage = "done"
                    /\ dbVotes' = RowsLeft(dbVotes, cl[c].calls[i].arg)
          /\ (last'.step = "deliver" /\ last'.c = c /\ last'.call.op = "fetchVotes"
              /\ last'.call.ok)
             => cl'[c].votes = last'.call.data]_vars

VoteCountingAndRemovalWitness ==
    /\ Delivered("fetchVotes") /\ last.call.ok
    /\ last.call.ctx.fn = "toggleVote" /\ last.call.ctx.before = 1
    /\ dbVotes = <<Vote(1, "c2")>>
    /\ cl[last.c].votes = dbVotes
    /\ getVoteCount(cl[last.c].votes, VoteBoard[1]) = 1

\* the removeTicket whose last call was settled by the step taken last has run to
\* its end: its delete succeeded, or it failed and the reload has answered
RemoveSettled ==
    \/ Delivered("delete") /\ last.call.ok
    \/ Delivered("fetchTickets") /\ last.call.ctx.fn = "removeTicket"

\* C20: when a removeTicket(T) called while the collection no longer held T has
\* settled, with its delete failed or not and its reload failed or not, no bucket
\* of the page holds T and no exception has left the page's code.
RemoveGoneTicket ==
    (RemoveSettled /\ last.call.ctx.gone)
    => /\ ~cl[last.c].uncaught
       /\ \A k \in DOMAIN cl[last.c].ticketsByColumn :
              \A t \in Range(cl[last.c].ticketsByColumn[k]) : t.id # last.call.ctx.ticket

RemoveGoneTicketWitness ==
    /\ Delivered("fetchTickets") /\ last.call.ctx.fn = "removeTicket"
    /\ last.call.ctx.gone
    /\ ~last.call.ok
    /\ cl[last.c].error = FailureMessage
    /\ ~cl[last.c].loading

\* C21: the step that settles a failed addVote or removeVote of a toggleVote sets
\* the error flag to the failure's message, issues no call, and leaves
\* ticketsByColumn, the votes list and the editing state as they were.
ToggleFailureNoReload ==
    [][\A c \in Clients :
          (/\ last'.step = "deliver" /\ last'.c = c
           /\ last'.call.op \in {"addVote", "removeVote"} /\ ~last'.call.ok)
          => /\ cl'[c].error = last'.call.message
             /\ OrElse(cl'[c].error, Null) # Null
             /\ last'.issued = <<>>
             /\ Len(cl'[c].calls) = Len(cl[c].calls) - 1
             /\ \A i \in DOMAIN cl'[c].calls : cl'[c].calls[i] \in Range(cl[c].calls)
             /\ cl'[c].ticketsByColumn = cl[c].ticketsByColumn
             /\ cl'[c].votes = cl[c].votes
             /\ Editing(cl'[c]) = Editing(cl[c])]_vars

ToggleFailureNoReloadWitness ==
    /\ Delivered("removeVote") /\ ~last.call.ok
    /\ cl[last.c].error = FailureMessage
    /\ cl[last.c].calls = <<>>
    /\ cl[last.c].votes # <<>>
    /\ cl[last.c].editingTicketId = TicketId(1)

\* C22: a getOrCreateVoterId call in a profile without a stored voter_id returns a
\* generated id and stores it under voter_id; a call in a profile with a stored
\* voter_id returns the stored value, does not write, and leaves the entry as it
\* was.
VoterIdentityStable ==
    [][\A c \in Clients :
          (last'.step = "getOrCreateVoterId" /\ last'.c = c)
          => IF localStorage[c] \in {Null, ""}
             THEN /\ last'.id \in UUIDs /\ last'.wrote
                  /\ localStorage'[c] = last'.id
             ELSE /\ last'.id = localStorage[c] /\ ~last'.wrote
                  /\ localStorage'[c] = localStorage[c]]_vars

VoterIdentityStableWitness ==
    /\ last.step = "getOrCreateVoterId"
    /\ ~last.wrote
    /\ last.was \in UUIDs
    /\ last.id = last.was /\ localStorage[last.c] = last.was

\* C23: on a page without configuration, once onMount has run every read it
\* attempted has left a message in the error flag, the board with its buttons is
\* never shown, no step issues a write and none is in flight, and no exception has
\* left the page's code.
Writes == {"insert", "update", "delete", "addVote", "removeVote"}

MissingConfigDegrades ==
    \A c \in Clients :
        ~cl[c].configured
        => /\ cl[c].mounted => OrElse(cl[c].error, Null) # Null
           /\ ~Rendered(cl[c])
           /\ \A i \in DOMAIN cl[c].calls : cl[c].calls[i].op \notin Writes
           /\ ("issued" \in DOMAIN last /\ last.c = c)
              => \A i \in DOMAIN last.issued : last.issued[i] \notin Writes
           /\ ~cl[c].uncaught

\* C24: on the one page at work, when no call is in flight and no write has failed
\* (a failed call leaves its message in the error flag for good), every ticket of
\* the view model has the title and the content of its row in the collection.
SingleClientConvergence ==
    LET s == cl["c1"] IN
    (s.mounted /\ s.calls = <<>> /\ OrElse(s.error, Null) = Null)
    => \A k \in DOMAIN s.ticketsByColumn : \A t \in Range(s.ticketsByColumn[k]) :
           \E row \in Range(dbTickets) :
               row.id = t.id /\ row.title = t.title /\ row.content = t.content

\* the tickets of the view model, bucket after bucket
AllTickets(s) ==
    LET RECURSIVE Join(_)
        Join(ks) == IF ks = {} THEN <<>>
                    ELSE LET k == CHOOSE x \in ks : TRUE
                         IN s.ticketsByColumn[k] \o Join(ks \ {k})
    IN Join(DOMAIN s.ticketsByColumn)

\* C25: no ticket id appears twice in ticketsByColumn, within a bucket or across
\* buckets.
NoDuplicateCards ==
    \A c \in Clients :
        LET all == AllTickets(cl[c])
        IN \A i, j \in DOMAIN all : all[i].id = all[j].id => i = j

\* C26: while a ticket is in edit mode, a step changes the editing state
\* (editingTicketId, editingTitle, editingContent) only if it is the user's typing,
\* a key press or focus-out in the edit fields (saveEdit, Escape), or a startEdit.
EditNeverReplaced ==
    [][\A c \in Clients :
          (cl[c].editingTicketId # Null /\ Editing(cl'[c]) # Editing(cl[c]))
          => last'.step \in {"input", "handleEditKeydown", "handleTicketEditBlur",
                             "startEdit"}]_vars

\* C27: a saveEdit(T) called while another ticket U is in edit mode issues no
\* remote call, leaves T's entry in the view model as it was, and leaves U's edit
\* session (editingTicketId and the two buffers) as it was.
SaveEditOnlyEdited ==
    (SaveEditCalled /\ last.was.id # Null /\ last.was.id # last.ticket.id)
    => /\ last.issued = <<>>
       /\ \E t \in Range(Bucket(cl[last.c], last.ticket.column)) : t = last.ticket
       /\ Editing(cl[last.c]) = last.was

\* the updates a page has sent that the backend has not yet served
UpdatesSent(s) ==
    Cardinality({i \in DOMAIN s.calls : s.calls[i].op = "update" /\ s.calls[i].stage = "sent"})

\* C28: a step issues at most one remote ticket update, it does so only while a
\* ticket is in edit mode, and that step ends the edit session; so no edit session
\* sees two updates, whatever Enter presses and focus-outs reach saveEdit.
OneUpdatePerSession ==
    [][\A c \in Clients :
          UpdatesSent(cl'[c]) > UpdatesSent(cl[c])
          => /\ UpdatesSent(cl'[c]) = UpdatesSent(cl[c]) + 1
             /\ cl[c].editingTicketId # Null
             /\ cl'[c].editingTicketId = Null]_vars

\* Enter saved a changed ticket, and the focus-out of the disappearing fields
\* reached saveEdit and issued nothing
OneUpdatePerSessionWitness ==
    /\ last.step = "handleTicketEditBlur" /\ "after" \in DOMAIN last /\ last.after = "Enter"
    /\ last.issued = <<>>
    /\ UpdatesSent(cl[last.c]) = 1
    /\ last.ticket.title # NewTitle
    /\ \E t \in Cards(cl[last.c]) : t.id = last.ticket.id /\ t.title = NewTitle

\* `after` is `before` but for the title and content of the tickets with id `id`:
\* same length, and at each position the same id, column and order, and the same
\* ticket altogether where the id is another
OnlyTitleAndContent(before, after, id) ==
    /\ Len(after) = Len(before)
    /\ \A i \in DOMAIN before :
          /\ after[i].id = before[i].id
          /\ after[i].column = before[i].column
          /\ after[i].order = before[i].order
          /\ before[i].id # id => after[i] = before[i]

\* C29: the step of a saveEdit that found a change leaves ticketsByColumn as it
\* was but for the title and content of the ticket it was called on, which become
\* the buffers; and the step in which the backend applies the update leaves the
\* ticket collection as it was but for the title and content of that row.
SaveEditFrame ==
    [][/\ (/\ last'.step \in {"handleEditKeydown", "handleTicketEditBlur"}
           /\ last'.issued = <<"update">>)
          => LET before == cl[last'.c].ticketsByColumn
                 after == cl'[last'.c].ticketsByColumn
             IN /\ DOMAIN after = DOMAIN before
                /\ \A k \in DOMAIN before :
                       OnlyTitleAndContent(before[k], after[k], last'.ticket.id)
                /\ \A t \in Range(after[last'.ticket.column]) :
                       t.id = last'.ticket.id
                       => t.title = last'.was.title /\ t.content = last'.was.content
       /\ (last'.step = "serve" /\ last'.op = "update" /\ last'.ok)
          => \E i \in DOMAIN cl[last'.c].calls :
                 LET m == cl[last'.c].calls[i]
                 IN /\ m.op = "update" /\ m.stage = "sent"
                    /\ OnlyTitleAndContent(dbTickets, dbTickets', m.arg.id)
                    /\ \A row \in Range(dbTickets') :
                           row.id = m.arg.id
                           => row.title = m.arg.title /\ row.content = m.arg.content]_vars

\* the backend has applied the update of the second of two tickets
SaveEditFrameWitness ==
    /\ last.step = "serve" /\ last.op = "update" /\ last.ok
    /\ Len(dbTickets) = 2
    /\ dbTickets[1].content = Null
    /\ dbTickets[2].title = "Retro" /\ dbTickets[2].content = NewContent
    /\ \E t \in Range(Bucket(cl[last.c], "Good")) : t = dbTickets[2]

\* the tickets of `after` have the order of the tickets of `before` with their id
SameOrders(before, after) ==
    \A i \in DOMAIN before, j \in DOMAIN after :
        before[i].id = after[j].id => before[i].order = after[j].order

\* C30: the step of handleInstantAddTicket(column) sends an insert whose order is
\* the length the column's bucket had before the step, plus one; and no step
\* changes the order of a ticket that stays, in the collection or in a view model.
OrderAssignment ==
    [][/\ last'.step = "handleInstantAddTicket"
          => LET sent == cl'[last'.c].calls[Len(cl'[last'.c].calls)]
             IN /\ last'.issued = <<"insert">>
                /\ sent.arg.column = last'.column
                /\ sent.arg.order = Len(Bucket(cl[last'.c], last'.column)) + 1
       /\ SameOrders(dbTickets, dbTickets')
       /\ \A c \in Clients : SameOrders(AllTickets(cl[c]), AllTickets(cl'[c]))]_vars

\* an add in a column that shows one ticket, next to a column that shows another,
\* has sent order 2
OrderAssignmentWitness ==
    /\ last.step = "handleInstantAddTicket"
    /\ Len(Bucket(cl[last.c], last.column)) = 1
    /\ \E k \in DOMAIN cl[last.c].ticketsByColumn :
           k # last.column /\ Len(cl[last.c].ticketsByColumn[k]) = 1
    /\ cl[last.c].calls[Len(cl[last.c].calls)].arg.order = 2

\* C31: the step of an updateTicket(id, updates) of the store leaves every ticket
\* with another id that was shown before still shown, unchanged; shows the ticket
\* with that id, if it was shown, with the updates merged in; and shows no ticket
\* whose id was not shown before.
UpdateTicketKeepsBoard ==
    [][last'.step = "updateTicket"
       => LET before == Shown(cl[last'.c])
              after == Shown(cl'[last'.c])
          IN /\ \A t \in before : t.id # last'.id => t \in after
             /\ \A t \in before : t.id = last'.id => Merge(t, last'.updates) \in after
             /\ \A t \in after : \E u \in before : u.id = t.id]_vars

\* C32: the step in which the store's refreshTickets resumes after a fetchTickets
\* that succeeded sets ticketsByColumn to the fetched tickets grouped by column,
\* ends with loading false and leaves the error store as it was; so that after
\* the refresh of an addTicket whose insert succeeded no ticket with a temporary
\* id is shown.
RefreshInstallsBoard ==
    [][(last'.step = "deliver" /\ last'.call.op = "fetchTickets" /\ last'.call.ok)
       => LET before == cl[last'.c]
              after == cl'[last'.c]
          IN /\ after.ticketsByColumn = fetchTickets(last'.call.data)
             /\ ~after.loading
             /\ after.error = before.error
             /\ \A t \in Shown(after) : t.id \notin {TempId(now) : now \in Clock}]_vars

\* C33: the unsubscribe of each channel setupVoteSubscription has opened has been
\* called at most once, and when the step taken last was a cleanup no channel is
\* still subscribed.
DisposedAtMostOnce ==
    \A c \in {"c1"} :
        /\ \A n \in DOMAIN cl[c].channels : cl[c].channels[n] <= 1
        /\ (last.step = "cleanup" /\ last.c = c)
           => \A n \in DOMAIN cl[c].channels : cl[c].channels[n] >= 1

====
